---- MODULE Spec2Model ----
(***************************************************************************)
(* Control plane of nanzhong/tester: the Postgres store (db.PG), the       *)
(* worker API handlers (http.APIHandler) and the scheduler loop            *)
(* (scheduler.Scheduler).  Every store call is one atomic step; a handler  *)
(* or a scheduler pass that makes several store calls is a sequence of     *)
(* steps, so that requests interleave between a handler's read and its     *)
(* write.  Time is a counter of clock ticks; 0 stands for the zero         *)
(* time.Time / SQL NULL, "" for a NULL error and for an empty RunMeta.     *)
(***************************************************************************)
EXTENDS Integers, Sequences, FiniteSets, TLC

\* ---------------------------------------------------------------- bounds
\* runs the scheduler can enqueue under Spec, and under the specifications of
\* the scheduler, before EnqueueRun fails
MaxRuns == 1
MaxSchedRuns == 2
MaxTime == 3

\* ------------------------------------------------------ program constants
\* the timeout resetStaleRuns applies by default and the default run delay of
\* NewScheduler, in clock ticks
DefaultRunTimeout == 1
RunDelay == 1

\* scheduler.run_timeout of the configuration file, in clock ticks
ConfiguredRunTimeout == 2

\* serveCmd collects WithRunTimeout(timeout) for the configured run timeout ...
schedulerOpts == <<ConfiguredRunTimeout>>

\* ... and calls scheduler.NewScheduler(dbStore, cfg.Packages): the options
\* it passes
NewSchedulerOpts == <<>>

\* the run timeout of the scheduler: the option it was given, else the default
RunTimeout ==
    IF NewSchedulerOpts = <<>> THEN DefaultRunTimeout ELSE NewSchedulerOpts[1]

\* HTTP statuses; NoReply: the handler has not replied yet and goes on
NoReply == 0
StatusOK == 200
StatusAccepted == 202
StatusBadRequest == 400
StatusUnauthorized == 401
StatusNotFound == 404
StatusInternalServerError == 500

\* ------------------------------------------------------------ input sets
\* the package names, and the packages configured under Spec
AllPackages == {"p1", "p2"}
Packages == {"p1"}
Workers == {"w1", "w2"}
Handlers == {"h1", "h2"}
TestIDs == {"t1"}
TBStates == {"passed", "failed"}
\* the Result.Name of the tests the workers submit
TestNames == {"TestA"}
ErrorMessages == {"boom"}
RunIDs == 1..MaxSchedRuns
\* a run_id path variable that uuid.Parse rejects
BadID == 0

\* the value of --api-key, and what a request may present as password
APIKey == "secret"
Passwords == {"", "guess", APIKey}

\* a request without an Authorization header
NoCredentials == "none"

ErrNotFound == "not found"
ErrDuplicateKey == "duplicate key"

\* the line resetStaleRuns logs after a ResetRun without error
LogReset == "reset run"

VARIABLES
    runs,             \* table runs: id -> row
    tests,            \* table tests: set of rows, primary key id
    now,              \* the wall clock read by p.now() and time.Now()
    nextID,           \* number of ids uuid.New() has handed to the scheduler
    handlers,         \* in-flight request of every handler goroutine
    lastScheduledAt,  \* Scheduler.lastScheduledAt, 0 = never
    schedPc,          \* position of the scheduleRuns sub-pass
    schedPending,     \* scheduleRuns: packages that have a pending run
    schedTodo,        \* scheduleRuns: packages the loop has still to visit
    resetPc,          \* position of the resetStaleRuns sub-pass
    resetSnap,        \* resetStaleRuns: the listed runs still to visit
    resetLog,         \* what the current pass logged for its last ResetRun:
                      \* LogReset, or the error Run logs as scheduling error
    packages,         \* the configured packages: APIHandler.packages, s.packages
    runDelay,         \* Scheduler.runDelay
    apiKey,           \* APIHandler.apiKey, "" = no key configured
    deliveries,       \* history: 200 replies of claimRun per run since it
                      \* was last enqueued (EnqueueRun or ResetRun)
    summaryCall,      \* the last call of ListRunSummariesInRange: its
                      \* arguments and what it returned
    storeCall,        \* the last call of a mutating operation of the store
                      \* made from outside the handlers and the scheduler:
                      \* the operation, its id, and the error it returned
    written,          \* history: per run, the ids of the tests inserted
                      \* since its last StartRun and before it was finished
    alerts            \* the AlertManager: its registered alerters, the
                      \* alerts of the goroutines submitTest has started,
                      \* and the call of Fire that is running

vars == <<runs, tests, now, nextID, handlers, lastScheduledAt, schedPc,
          schedPending, schedTodo, resetPc, resetSnap, resetLog, packages,
          runDelay, apiKey, deliveries, summaryCall, storeCall, written,
          alerts>>

\* what NewAPIHandler and NewScheduler set and no statement changes afterwards
config_vars == <<packages, runDelay, apiKey>>

\* what the calls made from outside the handlers and the scheduler returned
call_vars == <<summaryCall, storeCall>>

\* ------------------------------------------------------------------ rows
NoRun == [id |-> 0, package |-> "", enqueued_at |-> 0, started_at |-> 0,
          finished_at |-> 0, error |-> "", runner |-> ""]

NoTest == [id |-> "", run_id |-> 0, state |-> "", name |-> ""]

\* no call of a store operation yet
NoStoreCall == [op |-> "", id |-> 0, missing |-> FALSE, err |-> ""]

\* no call of ListRunSummariesInRange yet
NoSummaryCall == [begin |-> 0, end |-> 0, window |-> 0, panic |-> FALSE,
                  summaries |-> <<>>]

NewRun(id, pkg, t) == [id |-> id, package |-> pkg, enqueued_at |-> t,
                       started_at |-> 0, finished_at |-> 0, error |-> "",
                       runner |-> ""]

IsStarted(run) == run.started_at # 0
IsFinished(run) == run.finished_at # 0
IsEnqueued(run) == run.started_at = 0 /\ run.finished_at = 0

\* ------------------------------------------------------------- db.PG
\* Each operator is one SQL statement: the table after it, or its error.

\* INSERT INTO runs
EnqueueRun(rs, run) == rs @@ (run.id :> run)

\* StartRun, first statement: SELECT ... FROM runs WHERE id = ?
StartRunSelectErr(rs, id) == IF id \in DOMAIN rs THEN "" ELSE ErrNotFound

\* StartRun, second statement:
\* UPDATE runs SET started_at = now, meta = {runner} WHERE id = ?
StartRunUpdate(rs, id, runner, t) ==
    IF id \in DOMAIN rs
    THEN [rs EXCEPT ![id].started_at = t, ![id].runner = runner]
    ELSE rs

\* a ResetRun whose UPDATE has no finished_at guard: WHERE id = ?
ResetRunMatchesAny(rs, id) == id \in DOMAIN rs

\* rows the UPDATE of ResetRun matches: WHERE id = ? AND finished_at IS NULL
ResetRunMatches(rs, id) == id \in DOMAIN rs /\ rs[id].finished_at = 0

\* a ResetRun that clears the timestamps and the error but not meta
ResetRunKeepsMeta(rs, id) ==
    IF ResetRunMatches(rs, id)
    THEN [rs EXCEPT ![id].started_at = 0, ![id].finished_at = 0,
                    ![id].error = ""]
    ELSE rs

ResetRun(rs, id) ==
    IF ResetRunMatches(rs, id)
    THEN [rs EXCEPT ![id].started_at = 0, ![id].finished_at = 0,
                    ![id].error = "", ![id].runner = ""]
    ELSE rs

ResetRunErr(rs, id) == IF ResetRunMatches(rs, id) THEN "" ELSE ErrNotFound

\* DELETE FROM runs WHERE id = ?
DeleteRun(rs, id) == [i \in DOMAIN rs \ {id} |-> rs[i]]

\* Exec reports no error when the DELETE matches no row
DeleteRunErr(rs, id) == ""

\* UPDATE runs SET finished_at = now WHERE id = ?
CompleteRun(rs, id, t) ==
    IF id \in DOMAIN rs THEN [rs EXCEPT ![id].finished_at = t] ELSE rs

\* Exec reports no error when the UPDATE matches no row
CompleteRunErr(rs, id) == ""

\* UPDATE runs SET finished_at = now, error = ? WHERE id = ?
FailRun(rs, id, msg, t) ==
    IF id \in DOMAIN rs
    THEN [rs EXCEPT ![id].finished_at = t, ![id].error = msg]
    ELSE rs

FailRunErr(rs, id) == ""

\* SELECT ... FROM runs WHERE id = ?  (the run of GetRun; NoRun = ErrNotFound)
GetRun(rs, id) == IF id \in DOMAIN rs THEN rs[id] ELSE NoRun

\* tests of a run, as GetRun and listRuns attach them
RunTests(ts, id) == {t \in ts : t.run_id = id}

\* an INSERT INTO tests on a table without primary key
AddTestErrNoKey(ts, test) == ""

\* INSERT INTO tests: the primary key rejects a second row with the same id
AddTestErr(ts, test) ==
    IF \E t \in ts : t.id = test.id THEN ErrDuplicateKey ELSE ""

AddTest(ts, test) == IF AddTestErr(ts, test) = "" THEN ts \cup {test} ELSE ts

\* SELECT ... FROM runs WHERE finished_at IS NULL ORDER BY enqueued_at ASC
ListPendingRuns(rs) == {rs[id] : id \in {i \in DOMAIN rs : rs[i].finished_at = 0}}

\* the rows of a result set that may come first under ORDER BY enqueued_at
\* ASC (rows with equal enqueued_at come in either order)
First(rows) == {r \in rows : \A q \in rows : r.enqueued_at <= q.enqueued_at}

\* ------------------------------------- PG.ListRunSummariesInRange
\* math.Ceil(float64(end.Sub(begin)) / float64(window)), for end >= begin
Buckets(begin, end, window) == ((end - begin) + window - 1) \div window

\* the summaries before the scan: one per bucket, with an empty map
EmptySummaries(begin, end, window) ==
    [i \in 1..Buckets(begin, end, window) |->
       [Time |-> begin + (i - 1) * window, Duration |-> window,
        PackageSummary |-> <<>>]]

\* int(runStartedAt.Sub(begin) / window): the index into summaries, from 0
BucketIndex(started, begin, window) == (started - begin) \div window

\* the rows of the query: tests joined with their runs, for the runs that are
\* started and finished with begin <= started_at <= end
SummaryRows(rs, ts, begin, end) ==
    {[run |-> rs[id], test |-> t] :
       id \in {i \in DOMAIN rs : /\ rs[i].started_at # 0
                                 /\ rs[i].started_at >= begin
                                 /\ rs[i].started_at <= end
                                 /\ rs[i].finished_at # 0},
       t \in ts} \cap {row \in [run : {rs[i] : i \in DOMAIN rs}, test : ts] :
                        row.test.run_id = row.run.id}

\* the orders in which ORDER BY runs.started_at ASC may return the rows
RowOrders(rows) ==
    {s \in [1..Cardinality(rows) -> rows] :
       /\ \A i, j \in DOMAIN s : i # j => s[i] # s[j]
       /\ \A i, j \in DOMAIN s :
            i < j => s[i].run.started_at <= s[j].run.started_at}

NewPackageSummary(pkg) ==
    [Package |-> pkg, RunIDs |-> <<>>, ErrorRunIDs |-> <<>>,
     PassedTests |-> <<>>, FailedTests |-> <<>>, SkippedTests |-> <<>>]

\* m[name] = append(m[name], id) on a map from test names to lists of ids
AppendTo(m, name, id) ==
    (name :> (IF name \in DOMAIN m THEN Append(m[name], id) ELSE <<id>>)) @@ m

\* a scan loop without the continue after an error run: the run id goes to
\* ErrorRunIDs and the test of the row is classified as well
ScanRowClassifiesAll(cur, row) ==
    [cur EXCEPT
       !.ErrorRunIDs = IF row.run.error # ""
                       THEN Append(@, row.run.id) ELSE @,
       !.RunIDs = IF row.run.error = "" THEN Append(@, row.run.id) ELSE @,
       !.PassedTests = IF row.test.state = "passed"
                       THEN AppendTo(@, row.test.name, row.test.id) ELSE @,
       !.FailedTests = IF row.test.state = "failed"
                       THEN AppendTo(@, row.test.name, row.test.id) ELSE @,
       !.SkippedTests = IF row.test.state = "skipped"
                        THEN AppendTo(@, row.test.name, row.test.id) ELSE @]

\* the body of the scan loop for one row, on the package summary of its bucket
ScanRow(cur, row) ==
    IF row.run.error # ""
    THEN [cur EXCEPT !.ErrorRunIDs = Append(@, row.run.id)]
    ELSE [cur EXCEPT
            !.RunIDs = Append(@, row.run.id),
            !.PassedTests = IF row.test.state = "passed"
                            THEN AppendTo(@, row.test.name, row.test.id)
                            ELSE @,
            !.FailedTests = IF row.test.state = "failed"
                            THEN AppendTo(@, row.test.name, row.test.id)
                            ELSE @,
            !.SkippedTests = IF row.test.state = "skipped"
                             THEN AppendTo(@, row.test.name, row.test.id)
                             ELSE @]

\* the scan loop over the rows; summaries[bucketIndex] panics when the index
\* is not below the number of buckets
RECURSIVE Scan(_, _, _, _)
Scan(acc, rows, begin, window) ==
    IF rows = <<>> \/ acc.panic THEN acc
    ELSE LET row == Head(rows)
             i == BucketIndex(row.run.started_at, begin, window) + 1
             pkg == row.run.package
         IN IF i \notin DOMAIN acc.summaries
            THEN [acc EXCEPT !.panic = TRUE]
            ELSE LET ps == acc.summaries[i].PackageSummary
                     cur == IF pkg \in DOMAIN ps THEN ps[pkg]
                            ELSE NewPackageSummary(pkg)
                     next == (pkg :> ScanRow(cur, row)) @@ ps
                 IN Scan([acc EXCEPT !.summaries[i].PackageSummary = next],
                         Tail(rows), begin, window)

\* the ids of a list without repetitions, in the order of first occurrence
RECURSIVE Uniquify(_, _)
Uniquify(ids, seen) ==
    IF ids = <<>> THEN <<>>
    ELSE IF Head(ids) \in seen THEN Uniquify(Tail(ids), seen)
    ELSE <<Head(ids)>> \o Uniquify(Tail(ids), seen \cup {Head(ids)})

\* the loop after the scan, on one package summary: a package summary with
\* no RunIDs is left as the scan built it
UniquifyPackage(ps) ==
    IF Len(ps.RunIDs) = 0 THEN ps
    ELSE [ps EXCEPT !.RunIDs = Uniquify(@, {}),
                    !.ErrorRunIDs = Uniquify(@, {})]

\* ListRunSummariesInRange for one order of the rows
ListRunSummariesInRange(rs, ts, begin, end, window, rows) ==
    LET scanned == Scan([panic |-> FALSE,
                         summaries |-> EmptySummaries(begin, end, window)],
                        rows, begin, window)
    IN IF scanned.panic THEN [scanned EXCEPT !.summaries = <<>>]
       ELSE [scanned EXCEPT
               !.summaries =
                  [i \in DOMAIN @ |->
                     [@[i] EXCEPT
                        !.PackageSummary =
                           [p \in DOMAIN @ |-> UniquifyPackage(@[p])]]]]

\* ------------------------------------------------------- AlertManager
\* the AlertManager with its alerters; no goroutine has been started and no
\* call of Fire is running
\*   queue:    the alerts (by test id) of the goroutines that have not yet
\*             called Fire
\*   firing:   the alert of the running call of Fire, "" = none
\*   todo:     the alerters whose Fire has not returned yet
\*   called:   history: the alerters whose Fire has returned in this call
\*   failed:   history: the alerters that returned an error, in the order of
\*             their returns
\*   err:      errgroup.Group.err, the first error returned
\*   returned: what the last call of Fire returned
NewAlertManager(alerters) ==
    [alerters |-> alerters, queue |-> {}, firing |-> "", todo |-> {},
     called |-> {}, failed |-> <<>>, err |-> "", returned |-> <<>>]

\* ------------------------------------------------------------- handlers
Idle == [pc |-> "idle", id |-> 0, runner |-> "", test |-> NoTest, msg |-> "",
         run |-> NoRun]

\* the handler goroutine holds a request between two store calls
\* run: the row of the listing that claimRun goes on with
Busy(h, pc, id, runner, test, msg, run) ==
    [handlers EXCEPT ![h] = [pc |-> pc, id |-> id, runner |-> runner,
                             test |-> test, msg |-> msg, run |-> run]]

\* the handler goroutine has written its reply and returned
Done(h) == [handlers EXCEPT ![h] = Idle]

\* the state after NewScheduler(pkgs, WithRunDelay(delay)) and
\* NewAPIHandler(db, pkgs, WithAPIKey(key)) over a store that holds the runs
\* rs, the last of them with id n, and the tests ts, at time t
ConstructedWith(key, pkgs, delay, rs, ts, n, t) ==
    /\ runs = rs
    /\ tests = ts
    /\ now = t
    /\ nextID = n
    /\ handlers = [h \in Handlers |-> Idle]
    /\ lastScheduledAt = [p \in AllPackages |-> 0]
    /\ schedPc = "idle"
    /\ schedPending = {}
    /\ schedTodo = {}
    /\ resetPc = "idle"
    /\ resetSnap = {}
    /\ resetLog = ""
    /\ packages = pkgs
    /\ runDelay = delay
    /\ apiKey = key
    /\ deliveries = [id \in RunIDs |-> 0]
    /\ summaryCall = NoSummaryCall
    /\ storeCall = NoStoreCall
    /\ written = [id \in RunIDs |-> {x.id : x \in RunTests(ts, id)}]
    /\ alerts = NewAlertManager({})

\* the same with the API key of the deployment
ConstructedOver(pkgs, delay, rs, ts, n, t) ==
    ConstructedWith(APIKey, pkgs, delay, rs, ts, n, t)

\* the state after construction over an empty store
Constructed(pkgs, delay) == ConstructedOver(pkgs, delay, <<>>, {}, 0, 1)

Init == Constructed(Packages, RunDelay)

sched_vars == <<nextID, lastScheduledAt, schedPc, schedPending, schedTodo,
                resetPc, resetSnap, resetLog>>

\* the clock advances
Tick ==
    /\ now < MaxTime
    /\ now' = now + 1
    /\ UNCHANGED <<runs, tests, handlers, deliveries>>
    /\ UNCHANGED sched_vars
    /\ UNCHANGED config_vars
    /\ UNCHANGED call_vars
    /\ UNCHANGED <<written, alerts>>

\* ----------------------------------------------- APIHandler.claimRun
\* the runs of the listing that pass the loop's three tests
\* a claimRun whose include list takes precedence over its exclude list
EligibleIncludeDominates(rows, include, exclude) ==
    LET supported == IF include = {} THEN packages ELSE include
    IN {r \in rows : /\ ~IsStarted(r)
                     /\ (r.package \notin exclude \/ r.package \in include)
                     /\ r.package \in supported}

Eligible(rows, include, exclude) ==
    LET supported == IF include = {} THEN packages ELSE include
    IN {r \in rows : /\ ~IsStarted(r)
                     /\ r.package \notin exclude
                     /\ r.package \in supported}

\* the reply of claimRun before any run is started
claimRun_Reply(bodyOk, eligible) ==
    IF ~bodyOk THEN StatusInternalServerError
    ELSE IF eligible = {} THEN StatusNotFound
    ELSE NoReply

\* decode the body, build the package sets, ListPendingRuns, and walk the
\* listing up to the first run to start
claimRun_List(h, bodyOk, runner, include, exclude) ==
    /\ handlers[h].pc = "idle"
    /\ LET eligible == Eligible(ListPendingRuns(runs), include, exclude)
       IN IF claimRun_Reply(bodyOk, eligible) = NoReply
          THEN \E r \in First(eligible) :
                 handlers' = Busy(h, "claim_start", r.id, runner, NoTest, "", r)
          ELSE UNCHANGED handlers
    /\ UNCHANGED <<runs, tests, now, deliveries>>
    /\ UNCHANGED sched_vars
    /\ UNCHANGED config_vars
    /\ UNCHANGED call_vars
    /\ UNCHANGED <<written, alerts>>

\* the reply of claimRun after StartRun: the error of StartRun is dropped
claimRun_StartReply(err) == StatusOK

\* the body of the 200 reply of claimRun: json.NewEncoder(w).Encode(run), the
\* run of the listing
claimRun_StartBody(listed) == listed

\* StartRun (its SELECT finds the listed row: no statement of the program
\* deletes a run; then its UPDATE) and the 200 reply with the listed run
claimRun_StartRun(h) ==
    /\ handlers[h].pc = "claim_start"
    /\ LET req == handlers[h]
           err == StartRunSelectErr(runs, req.id)
       IN /\ runs' = IF err = ""
                     THEN StartRunUpdate(runs, req.id, req.runner, now)
                     ELSE runs
          /\ deliveries' = IF claimRun_StartReply(err) = StatusOK
                           THEN [deliveries EXCEPT ![req.id] = @ + 1]
                           ELSE deliveries
          /\ written' = IF err = ""
                        THEN [written EXCEPT ![req.id] = {}]
                        ELSE written
    /\ handlers' = Done(h)
    /\ UNCHANGED <<tests, now, alerts>>
    /\ UNCHANGED sched_vars
    /\ UNCHANGED config_vars
    /\ UNCHANGED call_vars

\* --------------------------------------------- APIHandler.submitTest
Tests == [id : TestIDs, run_id : RunIDs, state : TBStates, name : TestNames]

\* a submitTest that also refuses a run that is not started
submitTest_ReplyStartedOnly(bodyOk, run) ==
    IF ~bodyOk THEN StatusBadRequest
    ELSE IF run = NoRun THEN StatusInternalServerError
    ELSE IF IsFinished(run) \/ ~IsStarted(run) THEN StatusBadRequest
    ELSE NoReply

\* a submitTest without the finished check
submitTest_ReplyUnchecked(bodyOk, run) ==
    IF ~bodyOk THEN StatusBadRequest
    ELSE IF run = NoRun THEN StatusInternalServerError
    ELSE NoReply

\* the reply of submitTest after GetRun
submitTest_Reply(bodyOk, run) ==
    IF ~bodyOk THEN StatusBadRequest
    ELSE IF run = NoRun THEN StatusInternalServerError
    ELSE IF IsFinished(run) THEN StatusBadRequest
    ELSE NoReply

\* decode the body, GetRun, and the finished check
submitTest_GetRun(h, bodyOk, test) ==
    /\ handlers[h].pc = "idle"
    /\ IF submitTest_Reply(bodyOk, GetRun(runs, test.run_id)) = NoReply
       THEN handlers' = Busy(h, "submit_add", test.run_id, "", test, "", NoRun)
       ELSE UNCHANGED handlers
    /\ UNCHANGED <<runs, tests, now, deliveries>>
    /\ UNCHANGED sched_vars
    /\ UNCHANGED config_vars
    /\ UNCHANGED call_vars
    /\ UNCHANGED <<written, alerts>>

\* the reply of submitTest after AddTest
submitTest_AddReply(err) ==
    IF err = "" THEN StatusAccepted ELSE StatusInternalServerError

\* an alert on every test that was stored, whatever its state
DispatchesAnyState(err, test) == err = ""

\* the handler starts a goroutine that fires an alert: the test was stored
\* and its state is failed
Dispatches(err, test) == err = "" /\ test.state = "failed"

\* AddTest, then the goroutine of the alert (go func: the handler does not
\* wait for it), then the reply
submitTest_AddTest(h) ==
    /\ handlers[h].pc = "submit_add"
    /\ tests' = AddTest(tests, handlers[h].test)
    /\ alerts' = IF Dispatches(AddTestErr(tests, handlers[h].test),
                              handlers[h].test)
                 THEN [alerts EXCEPT !.queue = @ \cup {handlers[h].test.id}]
                 ELSE alerts
    /\ written' =
         LET test == handlers[h].test
         IN IF /\ AddTestErr(tests, test) = ""
               /\ IsStarted(GetRun(runs, test.run_id))
               /\ ~IsFinished(GetRun(runs, test.run_id))
            THEN [written EXCEPT ![test.run_id] = @ \cup {test.id}]
            ELSE written
    /\ handlers' = Done(h)
    /\ UNCHANGED <<runs, now, deliveries>>
    /\ UNCHANGED sched_vars
    /\ UNCHANGED config_vars
    /\ UNCHANGED call_vars

\* -------------------------------------------- APIHandler.completeRun
\* a completeRun without the finished check
completeRun_ReplyUnchecked(id, run) ==
    IF id = BadID THEN StatusNotFound
    ELSE IF run = NoRun THEN StatusInternalServerError
    ELSE NoReply

\* the reply of completeRun after GetRun
completeRun_Reply(id, run) ==
    IF id = BadID THEN StatusNotFound
    ELSE IF run = NoRun THEN StatusInternalServerError
    ELSE IF IsFinished(run) THEN StatusBadRequest
    ELSE NoReply

\* uuid.Parse, GetRun, and the finished check
completeRun_GetRun(h, id) ==
    /\ handlers[h].pc = "idle"
    /\ IF completeRun_Reply(id, GetRun(runs, id)) = NoReply
       THEN handlers' = Busy(h, "complete_mut", id, "", NoTest, "", NoRun)
       ELSE UNCHANGED handlers
    /\ UNCHANGED <<runs, tests, now, deliveries>>
    /\ UNCHANGED sched_vars
    /\ UNCHANGED config_vars
    /\ UNCHANGED call_vars
    /\ UNCHANGED <<written, alerts>>

\* the reply of completeRun after CompleteRun
completeRun_CompleteReply(err) ==
    IF err = "" THEN StatusOK ELSE StatusInternalServerError

\* CompleteRun (it returns no error when no row matches), then the reply
completeRun_CompleteRun(h) ==
    /\ handlers[h].pc = "complete_mut"
    /\ runs' = CompleteRun(runs, handlers[h].id, now)
    /\ handlers' = Done(h)
    /\ UNCHANGED <<tests, now, deliveries>>
    /\ UNCHANGED sched_vars
    /\ UNCHANGED config_vars
    /\ UNCHANGED call_vars
    /\ UNCHANGED <<written, alerts>>

\* ------------------------------------------------ APIHandler.failRun
\* the reply of failRun after GetRun and the decoding of the body
failRun_Reply(id, run, bodyOk) ==
    IF id = BadID THEN StatusNotFound
    ELSE IF run = NoRun THEN StatusInternalServerError
    ELSE IF IsFinished(run) THEN StatusBadRequest
    ELSE IF ~bodyOk THEN StatusInternalServerError
    ELSE NoReply

\* uuid.Parse, GetRun, the finished check, and the decoding of the body
failRun_GetRun(h, id, bodyOk, msg) ==
    /\ handlers[h].pc = "idle"
    /\ IF failRun_Reply(id, GetRun(runs, id), bodyOk) = NoReply
       THEN handlers' = Busy(h, "fail_mut", id, "", NoTest, msg, NoRun)
       ELSE UNCHANGED handlers
    /\ UNCHANGED <<runs, tests, now, deliveries>>
    /\ UNCHANGED sched_vars
    /\ UNCHANGED config_vars
    /\ UNCHANGED call_vars
    /\ UNCHANGED <<written, alerts>>

\* the reply of failRun after FailRun
failRun_FailReply(err) ==
    IF err = "" THEN StatusOK ELSE StatusInternalServerError

\* FailRun (it returns no error when no row matches), then the reply
failRun_FailRun(h) ==
    /\ handlers[h].pc = "fail_mut"
    /\ runs' = FailRun(runs, handlers[h].id, handlers[h].msg, now)
    /\ handlers' = Done(h)
    /\ UNCHANGED <<tests, now, deliveries>>
    /\ UNCHANGED sched_vars
    /\ UNCHANGED config_vars
    /\ UNCHANGED call_vars
    /\ UNCHANGED <<written, alerts>>

\* ---------------------------------------------------- scheduler.Scheduler
handler_vars == <<tests, handlers>>

\* a Run that ends its loop once a tick has logged an error
RunStopsOnError ==
    /\ schedPc = "idle"
    /\ resetPc = "idle"
    /\ resetLog \notin {ErrNotFound}
    /\ schedPc' = "list"
    /\ resetPc' = "list"
    /\ resetLog' = ""
    /\ UNCHANGED <<runs, now, nextID, lastScheduledAt, schedPending, schedTodo,
                   resetSnap, deliveries>>
    /\ UNCHANGED handler_vars
    /\ UNCHANGED config_vars
    /\ UNCHANGED call_vars
    /\ UNCHANGED <<written, alerts>>

\* one iteration of Run: both sub-passes are started and joined by eg.Wait
Run ==
    /\ schedPc = "idle"
    /\ resetPc = "idle"
    /\ schedPc' = "list"
    /\ resetPc' = "list"
    /\ resetLog' = ""
    /\ UNCHANGED <<runs, now, nextID, lastScheduledAt, schedPending, schedTodo,
                   resetSnap, deliveries>>
    /\ UNCHANGED handler_vars
    /\ UNCHANGED config_vars
    /\ UNCHANGED call_vars
    /\ UNCHANGED <<written, alerts>>

\* scheduleRuns: the listing (s.db.ListRuns lists the pending runs: the store's
\* ListPendingRuns) and the map pendingRuns by package
scheduleRuns_List ==
    /\ schedPc = "list"
    /\ schedPending' = {r.package : r \in ListPendingRuns(runs)}
    /\ schedTodo' = packages
    /\ schedPc' = "loop"
    /\ UNCHANGED <<runs, now, nextID, lastScheduledAt, resetPc, resetSnap,
                   resetLog, deliveries>>
    /\ UNCHANGED handler_vars
    /\ UNCHANGED config_vars
    /\ UNCHANGED call_vars
    /\ UNCHANGED <<written, alerts>>

\* a scheduleRuns that does not look at the time of the last scheduling
DueIgnoresDelay(pkg, pending, last, t) == pkg \notin pending

\* the package is due: it has no pending run and its delay has elapsed
Due(pkg, pending, last, t) ==
    /\ pkg \notin pending
    /\ ~(last[pkg] # 0 /\ t - last[pkg] < runDelay)

\* a scheduleRuns whose pass ends after the first package of the shuffled list
scheduleRuns_LoopHeadOnly(cap) ==
    /\ schedPc = "loop"
    /\ \E pkg \in schedTodo :
         /\ schedTodo' = {}
         /\ schedPc' = "idle"
         /\ IF Due(pkg, schedPending, lastScheduledAt, now)
            THEN /\ IF nextID < cap
                    THEN /\ runs' = EnqueueRun(runs, NewRun(nextID + 1, pkg, now))
                         /\ nextID' = nextID + 1
                    ELSE UNCHANGED <<runs, nextID>>
                 /\ lastScheduledAt' = [lastScheduledAt EXCEPT ![pkg] = now]
            ELSE UNCHANGED <<runs, nextID, lastScheduledAt>>
    /\ UNCHANGED <<now, schedPending, resetPc, resetSnap, resetLog, deliveries>>
    /\ UNCHANGED handler_vars
    /\ UNCHANGED config_vars
    /\ UNCHANGED call_vars
    /\ UNCHANGED <<written, alerts>>

\* scheduleRuns: one iteration of the loop over the shuffled packages.  The
\* result of EnqueueRun is dropped; the insert fails once cap ids are used.
scheduleRuns_Loop(cap) ==
    /\ schedPc = "loop"
    /\ \E pkg \in schedTodo :
         /\ schedTodo' = schedTodo \ {pkg}
         /\ schedPc' = IF schedTodo' = {} THEN "idle" ELSE "loop"
         /\ IF Due(pkg, schedPending, lastScheduledAt, now)
            THEN /\ IF nextID < cap
                    THEN /\ runs' = EnqueueRun(runs, NewRun(nextID + 1, pkg, now))
                         /\ nextID' = nextID + 1
                    ELSE UNCHANGED <<runs, nextID>>
                 /\ lastScheduledAt' = [lastScheduledAt EXCEPT ![pkg] = now]
            ELSE UNCHANGED <<runs, nextID, lastScheduledAt>>
    /\ UNCHANGED <<now, schedPending, resetPc, resetSnap, resetLog, deliveries>>
    /\ UNCHANGED handler_vars
    /\ UNCHANGED config_vars
    /\ UNCHANGED call_vars
    /\ UNCHANGED <<written, alerts>>

\* resetStaleRuns: the listing; runs that are not started are skipped
resetStaleRuns_List ==
    /\ resetPc = "list"
    /\ resetSnap' = {r \in ListPendingRuns(runs) : IsStarted(r)}
    /\ resetPc' = IF resetSnap' = {} THEN "idle" ELSE "loop"
    /\ UNCHANGED <<runs, now, nextID, lastScheduledAt, schedPc, schedPending,
                   schedTodo, resetLog, deliveries>>
    /\ UNCHANGED handler_vars
    /\ UNCHANGED config_vars
    /\ UNCHANGED call_vars
    /\ UNCHANGED <<written, alerts>>

\* a sweep for which no run is ever stale
StaleNever(r, t) == FALSE

\* the listed run has been started for longer than the timeout
Stale(r, t) == t - r.started_at > RunTimeout

\* resetStaleRuns: one iteration of the loop, on the listed run r; an error of
\* ResetRun ends the pass
resetStaleRuns_Visit(r) ==
    /\ resetPc = "loop"
    /\ r \in First(resetSnap)
    /\ IF Stale(r, now)
       THEN LET err == ResetRunErr(runs, r.id)
            IN /\ runs' = ResetRun(runs, r.id)
               /\ IF err # ""
                  THEN /\ resetLog' = err
                       /\ resetSnap' = {}
                       /\ UNCHANGED deliveries
                  ELSE /\ resetLog' = LogReset
                       /\ resetSnap' = resetSnap \ {r}
                       /\ deliveries' = [deliveries EXCEPT ![r.id] = 0]
       ELSE /\ resetSnap' = resetSnap \ {r}
            /\ UNCHANGED <<runs, resetLog, deliveries>>
    /\ resetPc' = IF resetSnap' = {} THEN "idle" ELSE "loop"
    /\ UNCHANGED <<now, nextID, lastScheduledAt, schedPc, schedPending, schedTodo>>
    /\ UNCHANGED handler_vars
    /\ UNCHANGED config_vars
    /\ UNCHANGED call_vars
    /\ UNCHANGED <<written, alerts>>

resetStaleRuns_Loop == \E r \in resetSnap : resetStaleRuns_Visit(r)

\* ------------------------------------------------------- specification
Next ==
    \/ Tick
    \/ Run
    \/ scheduleRuns_List
    \/ scheduleRuns_Loop(MaxRuns)
    \/ resetStaleRuns_List
    \/ resetStaleRuns_Loop
    \/ \E h \in Handlers, bodyOk \in BOOLEAN, runner \in Workers,
          include \in SUBSET Packages, exclude \in SUBSET Packages :
         claimRun_List(h, bodyOk, runner, include, exclude)
    \/ \E h \in Handlers : claimRun_StartRun(h)
    \/ \E h \in Handlers, bodyOk \in BOOLEAN, test \in Tests :
         submitTest_GetRun(h, bodyOk, test)
    \/ \E h \in Handlers : submitTest_AddTest(h)
    \/ \E h \in Handlers, id \in RunIDs \cup {BadID} : completeRun_GetRun(h, id)
    \/ \E h \in Handlers : completeRun_CompleteRun(h)
    \/ \E h \in Handlers, id \in RunIDs \cup {BadID}, bodyOk \in BOOLEAN,
          msg \in ErrorMessages :
         failRun_GetRun(h, id, bodyOk, msg)
    \/ \E h \in Handlers : failRun_FailRun(h)

Spec == Init /\ [][Next]_vars

\* ------------------------------------------- the scheduler with two runs
\* One handler goroutine serving one worker's well-formed requests, and a
\* scheduler that can enqueue MaxSchedRuns runs.
SchedHandlers == {"h1"}
SchedWorkers == {"w1"}

NextSched ==
    \/ Tick
    \/ Run
    \/ scheduleRuns_List
    \/ scheduleRuns_Loop(MaxSchedRuns)
    \/ resetStaleRuns_List
    \/ resetStaleRuns_Loop
    \/ \E h \in SchedHandlers, bodyOk \in {TRUE}, runner \in SchedWorkers,
          include \in SUBSET Packages, exclude \in SUBSET Packages :
         claimRun_List(h, bodyOk, runner, include, exclude)
    \/ \E h \in SchedHandlers : claimRun_StartRun(h)
    \/ \E h \in SchedHandlers, bodyOk \in {TRUE}, test \in Tests :
         submitTest_GetRun(h, bodyOk, test)
    \/ \E h \in SchedHandlers : submitTest_AddTest(h)
    \/ \E h \in SchedHandlers, id \in RunIDs \cup {BadID} :
         completeRun_GetRun(h, id)
    \/ \E h \in SchedHandlers : completeRun_CompleteRun(h)
    \/ \E h \in SchedHandlers, id \in RunIDs \cup {BadID}, bodyOk \in {TRUE},
          msg \in ErrorMessages :
         failRun_GetRun(h, id, bodyOk, msg)
    \/ \E h \in SchedHandlers : failRun_FailRun(h)

SchedSpec == Init /\ [][NextSched]_vars

\* the same with any run delay that WithRunDelay can set
RunDelays == {0, RunDelay}

InitDelay == \E delay \in RunDelays : Constructed(Packages, delay)

DelaySpec == InitDelay /\ [][NextSched]_vars

\* ------------------------------------------- claimRun with two packages
\* The configuration names one package or both; the store may hold a run that
\* an earlier process enqueued for the second package.  One handler serves
\* well-formed claim requests with any include and exclude lists.
Configurations == {Packages, AllPackages}
StoredRuns == {<<>>, <<NewRun(1, "p2", 1)>>}

InitFilter ==
    \E pkgs \in Configurations, rs \in StoredRuns :
       ConstructedOver(pkgs, RunDelay, rs, {}, Len(rs), 1)

NextFilter ==
    \/ Tick
    \/ Run
    \/ scheduleRuns_List
    \/ scheduleRuns_Loop(MaxSchedRuns)
    \/ resetStaleRuns_List
    \/ resetStaleRuns_Loop
    \/ \E h \in SchedHandlers, bodyOk \in {TRUE}, runner \in SchedWorkers,
          include \in SUBSET AllPackages, exclude \in SUBSET AllPackages :
         claimRun_List(h, bodyOk, runner, include, exclude)
    \/ \E h \in SchedHandlers : claimRun_StartRun(h)

FilterSpec == InitFilter /\ [][NextFilter]_vars

\* ---------------------------------------------- the run summaries
\* The store holds up to MaxSchedRuns runs in any state and up to two tests
\* of them; ListRunSummariesInRange is called with any range that is not
\* empty and any window.
MaxSummaryTime == 3
SummaryTimes == 1..MaxSummaryTime
MaxWindow == 2
SummaryTestIDs == {"t1", "t2"}

\* a run enqueued at the first instant: enqueued, started, or finished with
\* or without an error
StoredRun(id) ==
    {NewRun(id, pkg, 1) : pkg \in AllPackages}
    \cup {[NewRun(id, pkg, 1) EXCEPT !.started_at = s, !.runner = "w1"] :
            pkg \in AllPackages, s \in SummaryTimes}
    \cup {[NewRun(id, pkg, 1) EXCEPT !.started_at = s, !.runner = "w1",
                                     !.finished_at = s, !.error = e] :
            pkg \in AllPackages, s \in SummaryTimes,
            e \in {""} \cup ErrorMessages}

SummaryStores ==
    UNION {{rs \in [1..n -> UNION {StoredRun(id) : id \in RunIDs}] :
              \A id \in 1..n : rs[id] \in StoredRun(id)} :
           n \in 0..MaxSchedRuns}

\* the tests of the runs rs: every test id is used at most once
SummaryTests(rs) ==
    {ts \in SUBSET [id : SummaryTestIDs, run_id : DOMAIN rs, state : TBStates,
                    name : TestNames] :
       \A t, u \in ts : t.id = u.id => t = u}

InitSummary ==
    \E rs \in SummaryStores :
       \E ts \in SummaryTests(rs) :
          ConstructedOver(AllPackages, RunDelay, rs, ts, Len(rs), MaxSummaryTime)

\* one call of ListRunSummariesInRange
listRunSummaries(begin, end, window) ==
    /\ \E rows \in RowOrders(SummaryRows(runs, tests, begin, end)) :
         summaryCall' =
            [begin |-> begin, end |-> end, window |-> window]
            @@ ListRunSummariesInRange(runs, tests, begin, end, window, rows)
    /\ UNCHANGED <<runs, tests, now, deliveries, handlers, storeCall, written,
                   alerts>>
    /\ UNCHANGED sched_vars
    /\ UNCHANGED config_vars

NextSummary ==
    \E begin \in SummaryTimes, end \in SummaryTimes, window \in 1..MaxWindow :
       begin < end /\ listRunSummaries(begin, end, window)

SummarySpec == InitSummary /\ [][NextSummary]_vars

\* ------------------------------------------- the store, called directly
\* The store holds up to MaxSchedRuns runs in any state; its mutating
\* operations are called with the id of a stored run or of none.
InitStore ==
    \E rs \in SummaryStores :
       ConstructedOver(Packages, RunDelay, rs, {}, Len(rs), MaxSummaryTime)

\* one call of a store operation: the table after it and what it returned
Called(op, id, rs, err) ==
    /\ runs' = rs
    /\ storeCall' = [op |-> op, id |-> id, missing |-> id \notin DOMAIN runs,
                     err |-> err]
    /\ UNCHANGED <<tests, now, deliveries, handlers, summaryCall, written,
                   alerts>>
    /\ UNCHANGED sched_vars
    /\ UNCHANGED config_vars

PG_DeleteRun(id) ==
    Called("DeleteRun", id, DeleteRun(runs, id), DeleteRunErr(runs, id))

PG_CompleteRun(id) ==
    Called("CompleteRun", id, CompleteRun(runs, id, now), CompleteRunErr(runs, id))

PG_FailRun(id, msg) ==
    Called("FailRun", id, FailRun(runs, id, msg, now), FailRunErr(runs, id))

\* StartRun returns the error of its SELECT before its UPDATE
PG_StartRun(id, runner) ==
    Called("StartRun", id,
           IF StartRunSelectErr(runs, id) = ""
           THEN StartRunUpdate(runs, id, runner, now) ELSE runs,
           StartRunSelectErr(runs, id))

PG_ResetRun(id) ==
    Called("ResetRun", id, ResetRun(runs, id), ResetRunErr(runs, id))

NextStore ==
    \/ \E id \in RunIDs : PG_DeleteRun(id)
    \/ \E id \in RunIDs : PG_CompleteRun(id)
    \/ \E id \in RunIDs, msg \in ErrorMessages : PG_FailRun(id, msg)
    \/ \E id \in RunIDs, runner \in SchedWorkers : PG_StartRun(id, runner)
    \/ \E id \in RunIDs : PG_ResetRun(id)

StoreSpec == InitStore /\ [][NextStore]_vars

\* ---------------------------------- the store with tests, called directly
\* As above, and the store holds at most one test of one of its runs.
StoredTests(rs) ==
    {ts \in SUBSET [id : TestIDs, run_id : DOMAIN rs, state : TBStates,
                    name : TestNames] :
       Cardinality(ts) <= 1}

InitTestedStore ==
    \E rs \in SummaryStores :
       \E ts \in StoredTests(rs) :
          ConstructedOver(Packages, RunDelay, rs, ts, Len(rs), MaxSummaryTime)

TestedStoreSpec == InitTestedStore /\ [][NextStore]_vars

\* ------------------------------------------------ APIHandler.ensureAuth
\* a middleware that only asks for a Basic Authorization header
ensureAuth_ReplyAnyPassword(credentials) ==
    IF apiKey # "" /\ credentials = NoCredentials
    THEN StatusUnauthorized ELSE NoReply

\* the reply of the middleware; NewAPIHandler installs it on the /api
\* subrouter only when an API key is configured
ensureAuth_Reply(credentials) ==
    IF apiKey # "" /\ (credentials = NoCredentials \/ credentials # apiKey)
    THEN StatusUnauthorized ELSE NoReply

\* a request with the given credentials to the route served by next
ensureAuth(credentials, next) ==
    IF ensureAuth_Reply(credentials) = NoReply THEN next ELSE UNCHANGED vars

\* One handler serves requests with any credentials, with and without a
\* configured API key.
APIKeys == {"", APIKey}
Credentials == Passwords \cup {NoCredentials}

InitAuth ==
    \E key \in APIKeys :
       ConstructedWith(key, Packages, RunDelay, <<>>, {}, 0, 1)

NextAuth ==
    \/ Tick
    \/ Run
    \/ scheduleRuns_List
    \/ scheduleRuns_Loop(MaxRuns)
    \/ resetStaleRuns_List
    \/ resetStaleRuns_Loop
    \/ \E c \in Credentials, h \in SchedHandlers, runner \in SchedWorkers,
          include \in SUBSET Packages, exclude \in SUBSET Packages :
         ensureAuth(c, claimRun_List(h, TRUE, runner, include, exclude))
    \/ \E h \in SchedHandlers : claimRun_StartRun(h)
    \/ \E c \in Credentials, h \in SchedHandlers, test \in Tests :
         ensureAuth(c, submitTest_GetRun(h, TRUE, test))
    \/ \E h \in SchedHandlers : submitTest_AddTest(h)
    \/ \E c \in Credentials, h \in SchedHandlers, id \in RunIDs \cup {BadID} :
         ensureAuth(c, completeRun_GetRun(h, id))
    \/ \E h \in SchedHandlers : completeRun_CompleteRun(h)
    \/ \E c \in Credentials, h \in SchedHandlers, id \in RunIDs \cup {BadID},
          msg \in ErrorMessages :
         ensureAuth(c, failRun_GetRun(h, id, TRUE, msg))
    \/ \E h \in SchedHandlers : failRun_FailRun(h)

AuthSpec == InitAuth /\ [][NextAuth]_vars

\* ------------------------------------------- claimRun while runs are deleted
\* One handler serves claim requests while the scheduler runs and DeleteRun is
\* called on the store.
NextClaimDelete ==
    \/ Tick
    \/ Run
    \/ scheduleRuns_List
    \/ scheduleRuns_Loop(MaxSchedRuns)
    \/ resetStaleRuns_List
    \/ resetStaleRuns_Loop
    \/ \E h \in SchedHandlers, runner \in SchedWorkers,
          include \in SUBSET Packages, exclude \in SUBSET Packages :
         claimRun_List(h, TRUE, runner, include, exclude)
    \/ \E h \in SchedHandlers : claimRun_StartRun(h)
    \/ \E id \in RunIDs : PG_DeleteRun(id)

ClaimDeleteSpec == Init /\ [][NextClaimDelete]_vars

\* ------------------------------------------ claimRun without package lists
\* One handler serves claim requests that carry neither list, next to the
\* scheduler, over the stores and configurations of InitFilter.
NextOldest ==
    \/ Tick
    \/ Run
    \/ scheduleRuns_List
    \/ scheduleRuns_Loop(MaxSchedRuns)
    \/ resetStaleRuns_List
    \/ resetStaleRuns_Loop
    \/ \E h \in SchedHandlers, runner \in SchedWorkers :
         claimRun_List(h, TRUE, runner, {}, {})
    \/ \E h \in SchedHandlers : claimRun_StartRun(h)

OldestSpec == InitFilter /\ [][NextOldest]_vars

\* ------------------------------------------- the reset pass over two runs
\* One handler serves claim requests without package lists and completeRun
\* requests, next to the scheduler, over the stores and configurations of
\* InitFilter: two runs of different packages can be started at once.
NextReset ==
    \/ Tick
    \/ Run
    \/ scheduleRuns_List
    \/ scheduleRuns_Loop(MaxSchedRuns)
    \/ resetStaleRuns_List
    \/ resetStaleRuns_Loop
    \/ \E h \in SchedHandlers, runner \in SchedWorkers :
         claimRun_List(h, TRUE, runner, {}, {})
    \/ \E h \in SchedHandlers : claimRun_StartRun(h)
    \/ \E h \in SchedHandlers, id \in RunIDs : completeRun_GetRun(h, id)
    \/ \E h \in SchedHandlers : completeRun_CompleteRun(h)

ResetSpec == InitFilter /\ [][NextReset]_vars

\* ------------------------------------- the classification of the tests
\* The store holds one run in any state and up to two tests of it, each with
\* any name and any state a worker can send: the three states of TBState, or
\* none when the test never reported its end.
ClassStates == {"passed", "failed", "skipped", ""}
ClassNames == {"TestA", "TestB"}

ClassTests ==
    {ts \in SUBSET [id : SummaryTestIDs, run_id : {1}, state : ClassStates,
                    name : ClassNames] :
       \A t, u \in ts : t.id = u.id => t = u}

InitClass ==
    \E r \in StoredRun(1) :
       \E ts \in ClassTests :
          ConstructedOver(AllPackages, RunDelay, <<r>>, ts, 1, MaxSummaryTime)

ClassSpec == InitClass /\ [][NextSummary]_vars

\* ------------------------------------------------------ AlertManager.Fire
\* the alerters that can be registered, and the error an alerter returns:
\* "" = nil, otherwise an error that names the alerter
Alerters == {"slack", "pager"}
AlerterErrors(a) == {"", a}

\* fmt.Errorf("firing alerts: %w", err)
Wrapped(err) == <<"firing alerts", err>>

\* what Fire returns after eg.Wait
Fire_Return(err) == IF err # "" THEN Wrapped(err) ELSE <<>>

other_vars == <<runs, tests, now, handlers, deliveries, written>>

\* a goroutine started by submitTest calls Fire: eg.Go for every alerter
Fire_Start ==
    /\ alerts.firing = ""
    /\ \E id \in alerts.queue :
         alerts' = [alerts EXCEPT !.queue = @ \ {id}, !.firing = id,
                                  !.todo = alerts.alerters, !.called = {},
                                  !.failed = <<>>, !.err = ""]
    /\ UNCHANGED other_vars
    /\ UNCHANGED sched_vars
    /\ UNCHANGED config_vars
    /\ UNCHANGED call_vars

\* a Fire whose errgroup gives up the alerters that have not returned when
\* one of them fails
Fire_AlerterCancels(a, e) ==
    /\ alerts.firing # ""
    /\ a \in alerts.todo
    /\ alerts' = [alerts EXCEPT
                    !.todo = IF e # "" THEN {} ELSE @ \ {a},
                    !.called = @ \cup {a},
                    !.failed = IF e # "" THEN Append(@, a) ELSE @,
                    !.err = IF @ = "" THEN e ELSE @]
    /\ UNCHANGED other_vars
    /\ UNCHANGED sched_vars
    /\ UNCHANGED config_vars
    /\ UNCHANGED call_vars

\* the Fire of alerter a returns e in its goroutine of the errgroup, which
\* keeps the first error
Fire_Alerter(a, e) ==
    /\ alerts.firing # ""
    /\ a \in alerts.todo
    /\ alerts' = [alerts EXCEPT
                    !.todo = @ \ {a},
                    !.called = @ \cup {a},
                    !.failed = IF e # "" THEN Append(@, a) ELSE @,
                    !.err = IF @ = "" THEN e ELSE @]
    /\ UNCHANGED other_vars
    /\ UNCHANGED sched_vars
    /\ UNCHANGED config_vars
    /\ UNCHANGED call_vars

\* eg.Wait returns when every goroutine of the group has returned; Fire
\* returns, and the goroutine of submitTest logs the error and ends
Fire_Wait ==
    /\ alerts.firing # ""
    /\ alerts.todo = {}
    /\ alerts' = [alerts EXCEPT !.firing = "",
                                !.returned = Fire_Return(alerts.err)]
    /\ UNCHANGED other_vars
    /\ UNCHANGED sched_vars
    /\ UNCHANGED config_vars
    /\ UNCHANGED call_vars

\* One handler serves submitTest requests for the stored run 1, with tests of
\* two ids; the alert manager has any of the alerters registered.
AlertTests == [id : SummaryTestIDs, run_id : {1}, state : TBStates,
               name : TestNames]

InitAlert ==
    /\ \E sinks \in SUBSET Alerters : alerts = NewAlertManager(sinks)
    /\ runs = <<NewRun(1, "p1", 1)>>
    /\ tests = {}
    /\ now = 1
    /\ nextID = 1
    /\ handlers = [h \in Handlers |-> Idle]
    /\ lastScheduledAt = [p \in AllPackages |-> 0]
    /\ schedPc = "idle"
    /\ schedPending = {}
    /\ schedTodo = {}
    /\ resetPc = "idle"
    /\ resetSnap = {}
    /\ resetLog = ""
    /\ packages = Packages
    /\ runDelay = RunDelay
    /\ apiKey = APIKey
    /\ deliveries = [id \in RunIDs |-> 0]
    /\ summaryCall = NoSummaryCall
    /\ storeCall = NoStoreCall
    /\ written = [id \in RunIDs |-> {}]

NextAlert ==
    \/ \E h \in SchedHandlers, test \in AlertTests :
         submitTest_GetRun(h, TRUE, test)
    \/ \E h \in SchedHandlers : submitTest_AddTest(h)
    \/ Fire_Start
    \/ \E a \in Alerters : \E e \in AlerterErrors(a) : Fire_Alerter(a, e)
    \/ Fire_Wait

AlertSpec == InitAlert /\ [][NextAlert]_vars

\* ------------------------------------------------ two workers, one run
\* Each worker has its own connection: handler h1 serves the requests of
\* worker w1 and h2 those of w2.  The workers claim without package lists and
\* send well-formed completeRun and failRun requests.
WorkerOf == [h1 |-> "w1", h2 |-> "w2"]

NextOwner ==
    \/ Tick
    \/ Run
    \/ scheduleRuns_List
    \/ scheduleRuns_Loop(MaxRuns)
    \/ resetStaleRuns_List
    \/ resetStaleRuns_Loop
    \/ \E h \in Handlers : claimRun_List(h, TRUE, WorkerOf[h], {}, {})
    \/ \E h \in Handlers : claimRun_StartRun(h)
    \/ \E h \in Handlers, id \in RunIDs : completeRun_GetRun(h, id)
    \/ \E h \in Handlers : completeRun_CompleteRun(h)
    \/ \E h \in Handlers, id \in RunIDs, msg \in ErrorMessages :
         failRun_GetRun(h, id, TRUE, msg)
    \/ \E h \in Handlers : failRun_FailRun(h)

OwnerSpec == Init /\ [][NextOwner]_vars

\* the same under fair scheduling: the clock advances, the scheduler starts
\* its ticks and both sub-passes take their steps; nothing is assumed of the
\* requests of the workers
FairResetSpec ==
    /\ ResetSpec
    /\ WF_vars(Tick)
    /\ WF_vars(Run)
    /\ WF_vars(scheduleRuns_List)
    /\ WF_vars(scheduleRuns_Loop(MaxSchedRuns))
    /\ WF_vars(resetStaleRuns_List)
    /\ WF_vars(resetStaleRuns_Loop)

TypeOK ==
    /\ DOMAIN runs \subseteq RunIDs
    /\ now \in 1..MaxTime
    /\ nextID \in 0..MaxSchedRuns
    /\ \A id \in RunIDs : deliveries[id] \in 0..Cardinality(Handlers)

\* ================================================================ claims

\* C1: between two enqueuings of a run (EnqueueRun or ResetRun) claimRun
\* answers 200 with that run to at most one caller.
C1_ClaimExclusive == \A id \in RunIDs : deliveries[id] <= 1

\* C2: a StartRun on a run that does not exist or is not enqueued (already
\* started, or finished) leaves every run unchanged: it does not overwrite
\* started_at or meta.runner.
C2_StartRunOnlyEnqueued ==
    [][\A h \in Handlers :
         (/\ claimRun_StartRun(h)
          /\ ~IsEnqueued(GetRun(runs, handlers[h].id)))
         => runs' = runs]_vars

\* C4: whenever a row is inserted into tests, its run exists and is not
\* finished at the moment of the insertion.
C4_InsertOnlyForLiveRun ==
    [][\A t \in tests' \ tests :
         /\ t.run_id \in DOMAIN runs
         /\ ~IsFinished(runs[t.run_id])]_vars

\* C7: every finished run has started_at set: CompleteRun and FailRun do not
\* finish a run that is still enqueued.
C7_FinishedOnlyFromStarted ==
    \A id \in DOMAIN runs : IsFinished(runs[id]) => IsStarted(runs[id])

\* C9: for every run, enqueued_at <= started_at whenever started_at is set, and
\* started_at <= finished_at whenever both are set.
C9_TimestampOrder ==
    \A id \in DOMAIN runs :
        /\ IsStarted(runs[id]) => runs[id].enqueued_at <= runs[id].started_at
        /\ (IsStarted(runs[id]) /\ IsFinished(runs[id]))
               => runs[id].started_at <= runs[id].finished_at

\* C10: a run that is started and not finished has one owner in meta.runner,
\* the identity given to the StartRun that claimed it (the owner does not
\* change while the run stays started); an enqueued run has no owner.
C10_OneOwner ==
    /\ [](\A id \in DOMAIN runs :
            /\ (IsStarted(runs[id]) /\ ~IsFinished(runs[id]))
                   => runs[id].runner \in Workers
            /\ IsEnqueued(runs[id]) => runs[id].runner = "")
    /\ [][\A id \in DOMAIN runs :
            (/\ IsStarted(runs[id]) /\ ~IsFinished(runs[id])
             /\ IsStarted(runs'[id]) /\ ~IsFinished(runs'[id]))
            => runs'[id].runner = runs[id].runner]_vars

\* a finished run stays finished
FinishedIsStable ==
    \A id \in DOMAIN runs : IsFinished(runs[id]) => IsFinished(runs'[id])

\* C3: once a run is finished it stays finished, and from then on submitTest
\* answers 400 to every test of that run, and no request that has read the
\* finished run goes on to AddTest.
C3_SubmitAfterFinishRejected ==
    /\ [](\A t \in Tests :
            IsFinished(GetRun(runs, t.run_id))
            => submitTest_Reply(TRUE, GetRun(runs, t.run_id)) = StatusBadRequest)
    /\ [][/\ FinishedIsStable
          /\ \A h \in Handlers :
               (handlers[h].pc = "idle" /\ handlers'[h].pc = "submit_add")
               => ~IsFinished(GetRun(runs, handlers'[h].id))]_vars

\* a run is finished, has no test, and a handler is free to take a submitTest
\* for it: the request is answered 400
C3_Witness ==
    \E t \in Tests, h \in Handlers :
        /\ IsFinished(GetRun(runs, t.run_id))
        /\ RunTests(tests, t.run_id) = {}
        /\ handlers[h].pc = "idle"
        /\ submitTest_Reply(TRUE, GetRun(runs, t.run_id)) = StatusBadRequest

\* C5: ResetRun on a finished run returns NotFound and changes no run, in
\* every reachable table and in particular when resetStaleRuns resets a run
\* that has finished since the pass listed it.
C5_ResetFinishedRefused ==
    /\ [](\A id \in DOMAIN runs :
            IsFinished(runs[id])
            => /\ ResetRunErr(runs, id) = ErrNotFound
               /\ ResetRun(runs, id) = runs)
    /\ [][\A r \in resetSnap :
            (/\ resetStaleRuns_Visit(r)
             /\ Stale(r, now)
             /\ IsFinished(GetRun(runs, r.id)))
            => /\ runs' = runs
               /\ resetLog' = ErrNotFound
               /\ GetRun(runs', r.id) \notin ListPendingRuns(runs')]_vars

\* the pass has got NotFound from ResetRun on a run that finished after the
\* listing
C5_Witness ==
    /\ resetLog = ErrNotFound
    /\ \E id \in DOMAIN runs : IsFinished(runs[id])

\* the row of an enqueued run: no started_at, finished_at, error or meta
Cleared(run) == [run EXCEPT !.started_at = 0, !.finished_at = 0,
                            !.error = "", !.runner = ""]

\* ResetRun(id) returns a started, unfinished run to enqueued: its fields are
\* cleared, it is listed as pending and a claimRun without package lists
\* would start it
ResetReturnsToEnqueued(id) ==
    LET pre == GetRun(runs, id)
        post == ResetRun(runs, id)
    IN (IsStarted(pre) /\ ~IsFinished(pre))
       => /\ ResetRunErr(runs, id) = ""
          /\ post = [runs EXCEPT ![id] = Cleared(pre)]
          /\ post[id] \in ListPendingRuns(post)
          /\ post[id] \in Eligible(ListPendingRuns(post), {}, {})

\* C6 as stated: ResetRun returns a started, unfinished run to enqueued, and
\* after ResetRun(id) the run is listed as pending iff it was started and not
\* finished before the call.
C6_ResetPendingIffStarted ==
    \A id \in RunIDs :
        /\ ResetReturnsToEnqueued(id)
        /\ GetRun(ResetRun(runs, id), id) \in ListPendingRuns(ResetRun(runs, id))
           <=> (IsStarted(GetRun(runs, id)) /\ ~IsFinished(GetRun(runs, id)))

\* C6 amended: ResetRun returns a started, unfinished run to enqueued, and
\* after ResetRun(id) the run is listed as pending iff it existed and was not
\* finished before the call (an enqueued run stays enqueued); the ResetRun of
\* resetStaleRuns on a run that is still started leaves it enqueued, pending.
C6_ResetPendingIffNotFinished ==
    /\ [](\A id \in RunIDs :
            /\ ResetReturnsToEnqueued(id)
            /\ GetRun(ResetRun(runs, id), id) \in ListPendingRuns(ResetRun(runs, id))
               <=> (id \in DOMAIN runs /\ ~IsFinished(runs[id])))
    /\ [][\A r \in resetSnap :
            (/\ resetStaleRuns_Visit(r)
             /\ Stale(r, now)
             /\ ~IsFinished(GetRun(runs, r.id)))
            => /\ IsStarted(runs[r.id])
               /\ runs' = [runs EXCEPT ![r.id] = Cleared(runs[r.id])]
               /\ IsEnqueued(runs'[r.id])
               /\ runs'[r.id] \in ListPendingRuns(runs')
               /\ resetLog' = LogReset]_vars

\* resetStaleRuns has reset the run and a claimRun has started it again
C6_Witness ==
    /\ resetLog = LogReset
    /\ \E id \in DOMAIN runs :
         /\ IsStarted(runs[id]) /\ ~IsFinished(runs[id])
         /\ deliveries[id] = 1

\* C8: completeRun and failRun answer 400 for a finished run and go on to the
\* mutator for an unfinished one; no request that has read a finished run
\* reaches the mutator; the mutator finishes the run at the current time and
\* the handler answers 200.
C8_FinishHandlersCheckFirst ==
    /\ [](\A id \in DOMAIN runs :
            /\ IsFinished(runs[id])
               => /\ completeRun_Reply(id, runs[id]) = StatusBadRequest
                  /\ failRun_Reply(id, runs[id], TRUE) = StatusBadRequest
            /\ ~IsFinished(runs[id])
               => /\ completeRun_Reply(id, runs[id]) = NoReply
                  /\ failRun_Reply(id, runs[id], TRUE) = NoReply)
    /\ [][\A h \in Handlers :
            /\ (/\ handlers[h].pc = "idle"
                /\ handlers'[h].pc \in {"complete_mut", "fail_mut"})
               => ~IsFinished(GetRun(runs, handlers'[h].id))
            /\ completeRun_CompleteRun(h)
               => /\ runs'[handlers[h].id].finished_at = now
                  /\ completeRun_CompleteReply(
                         CompleteRunErr(runs, handlers[h].id)) = StatusOK
            /\ failRun_FailRun(h)
               => /\ runs'[handlers[h].id].finished_at = now
                  /\ runs'[handlers[h].id].error = handlers[h].msg
                  /\ failRun_FailReply(
                         FailRunErr(runs, handlers[h].id)) = StatusOK]_vars

\* failRun has finished a run with its error, and a handler is free to take a
\* completeRun or failRun for it: the request is answered 400
C8_Witness ==
    \E id \in DOMAIN runs, h \in Handlers :
        /\ IsFinished(runs[id])
        /\ runs[id].error \in ErrorMessages
        /\ handlers[h].pc = "idle"
        /\ completeRun_Reply(id, runs[id]) = StatusBadRequest

\* C11: the run that a 200 reply of claimRun carries has started_at set and
\* meta.runner equal to the identity of the caller, and the caller is the only
\* one to get that run: a concurrent caller that lost the race got 404.
C11_ClaimReplyIsStartedRun ==
    [][\A h \in Handlers :
         (/\ claimRun_StartRun(h)
          /\ claimRun_StartReply(StartRunSelectErr(runs, handlers[h].id)) = StatusOK)
         => /\ IsStarted(claimRun_StartBody(handlers[h].run))
            /\ claimRun_StartBody(handlers[h].run).runner = handlers[h].runner
            /\ deliveries'[handlers[h].id] <= 1]_vars

\* Package.RunDelay of the configured packages: a minimum of two clock ticks
\* between two scheduler-created runs of the package
PackageRunDelay == [p \in AllPackages |-> RunDelay + 1]

\* the run delay in force for a package: its own, else the scheduler's
EffectiveRunDelay(p) ==
    IF PackageRunDelay[p] # 0 THEN PackageRunDelay[p] ELSE runDelay

\* C12: scheduleRuns creates a run for a package only if the package has no
\* pending run and was never scheduled or was last scheduled at least its
\* effective run delay ago; no package ever has two pending runs.
C12_ScheduleOnlyWhenDue ==
    /\ [](\A r1, r2 \in ListPendingRuns(runs) :
            r1.package = r2.package => r1 = r2)
    /\ [][\A id \in DOMAIN runs' \ DOMAIN runs :
            /\ \A r \in ListPendingRuns(runs) : r.package # runs'[id].package
            /\ \/ lastScheduledAt[runs'[id].package] = 0
               \/ now - lastScheduledAt[runs'[id].package]
                      >= EffectiveRunDelay(runs'[id].package)]_vars

\* the runs a step inserts
Created == {runs'[id] : id \in DOMAIN runs' \ DOMAIN runs}

\* C13 as stated: whatever the run delay, scheduleRuns creates no run for a
\* package whose last scheduling is at the current time.
C13_NoRunInSameTick ==
    [][\A r \in Created : lastScheduledAt[r.package] # now]_vars

\* C13 amended: with a run delay above zero, a package whose last scheduling
\* is at the current time is not due, even without a pending run, and
\* scheduleRuns creates no run for it.
C13_NoRunInSameTickUnderDelay ==
    /\ [](\A p \in packages :
            (runDelay > 0 /\ lastScheduledAt[p] = now)
            => ~Due(p, {}, lastScheduledAt, now))
    /\ [][runDelay > 0
          => \A r \in Created : lastScheduledAt[r.package] # now]_vars

\* with a run delay above zero, scheduleRuns is about to visit a package that
\* was last scheduled at the current time and has no pending run, and
\* EnqueueRun would succeed
C13_Witness ==
    /\ runDelay > 0
    /\ schedPc = "loop"
    /\ nextID < MaxSchedRuns
    /\ \E p \in schedTodo :
         /\ p \notin schedPending
         /\ lastScheduledAt[p] = now

\* C14: resetStaleRuns resets a listed run that is still started exactly when
\* it has been started for longer than the configured run timeout: every such
\* run becomes enqueued again, and no run started for at most the configured
\* run timeout is reset.
C14_ResetExactlyStale ==
    [][\A r \in resetSnap :
         (resetStaleRuns_Visit(r) /\ GetRun(runs, r.id) = r)
         => (IsEnqueued(GetRun(runs', r.id))
             <=> now - r.started_at > ConfiguredRunTimeout)]_vars

\* the age, in clock ticks, after which a run that was never started counts as
\* unprocessable (24 hours)
UnprocessableAfter == 1

\* a pending run that is not started and was enqueued longer ago than
\* UnprocessableAfter
Unprocessable(r, t) ==
    /\ r # NoRun
    /\ IsEnqueued(r)
    /\ t - r.enqueued_at > UnprocessableAfter

\* the step that ends one iteration of Run: the last sub-pass returns
RunIterationEnds ==
    /\ ~(schedPc = "idle" /\ resetPc = "idle")
    /\ schedPc' = "idle"
    /\ resetPc' = "idle"

\* C15: one iteration of the scheduler deletes every pending run that was never
\* started and was enqueued more than 24 hours ago: when the iteration ends, no
\* run that was unprocessable during it is in the store any more (GetRun finds
\* nothing); and the scheduler deletes no run that is started, finished or
\* enqueued for at most 24 hours.
C15_UnprocessableDeleted ==
    [][/\ RunIterationEnds
          => \A id \in RunIDs :
               Unprocessable(GetRun(runs, id), now) => GetRun(runs', id) = NoRun
       /\ \A id \in DOMAIN runs :
             ~Unprocessable(runs[id], now) => id \in DOMAIN runs']_vars

\* the filter rule of ClaimRun: the package is in include (in the configured
\* set when include is empty) and is not in exclude
PassesFilter(pkg, include, exclude) ==
    /\ pkg \notin exclude
    /\ IF include = {} THEN pkg \in packages ELSE pkg \in include

\* the pending runs that are not started and pass the filter rule
Claimable(include, exclude) ==
    {r \in ListPendingRuns(runs) :
       ~IsStarted(r) /\ PassesFilter(r.package, include, exclude)}

\* C16: claimRun takes a run exactly when its package is in include (in the
\* configured set when include is empty) and not in exclude: it answers 404
\* exactly when no pending run that is not started passes this rule, and
\* otherwise goes on to start a run that passes it, one enqueued no later than
\* every other run that passes it.  A package named in both lists is never
\* claimed.
C16_ExcludeDominates ==
    /\ [](\A include \in SUBSET AllPackages, exclude \in SUBSET AllPackages :
            /\ claimRun_Reply(TRUE, Eligible(ListPendingRuns(runs), include, exclude))
                 = StatusNotFound
               <=> Claimable(include, exclude) = {}
            /\ \A r \in Eligible(ListPendingRuns(runs), include, exclude) :
                 r.package \notin include \cap exclude)
    /\ [][\A h \in SchedHandlers, runner \in SchedWorkers,
            include \in SUBSET AllPackages, exclude \in SUBSET AllPackages :
            (claimRun_List(h, TRUE, runner, include, exclude)
               /\ Claimable(include, exclude) # {})
            => /\ handlers'[h].pc = "claim_start"
               /\ handlers'[h].run \in Claimable(include, exclude)
               /\ \A q \in Claimable(include, exclude) :
                    handlers'[h].run.enqueued_at <= q.enqueued_at]_vars

\* pending runs of p1 and p2 are enqueued, the run of p1 the older one, and
\* claimRun is about to start the run of p2: the request excluded p1
C16_Witness ==
    \E h \in SchedHandlers, r1 \in ListPendingRuns(runs) :
       /\ handlers[h].pc = "claim_start"
       /\ handlers[h].run.package = "p2"
       /\ handlers[h].run \in ListPendingRuns(runs)
       /\ r1.package = "p1"
       /\ IsEnqueued(r1)
       /\ r1.enqueued_at < handlers[h].run.enqueued_at
       /\ handlers[h].run
            \in Eligible(ListPendingRuns(runs), {"p1", "p2"}, {"p1"})

\* the run is one the summaries are about: started in the range of the last
\* call, finished, and with at least one test
Summarised(r) ==
    /\ IsStarted(r)
    /\ IsFinished(r)
    /\ r.started_at >= summaryCall.begin
    /\ r.started_at <= summaryCall.end
    /\ RunTests(tests, r.id) # {}

\* the instant t lies in the i-th window after begin
InWindow(t, i) ==
    /\ summaryCall.begin + (i - 1) * summaryCall.window <= t
    /\ t < summaryCall.begin + i * summaryCall.window

\* C17: with window > 0, ListRunSummariesInRange returns ceil((end - begin) /
\* window) summaries, the least number of windows that cover the range; the
\* i-th of them has Time = begin + i*window (i from 0) and Duration = window,
\* and a bucket into which no run falls has an empty PackageSummary map.
C17_OneSummaryPerWindow ==
    summaryCall.window > 0 =>
       LET n == Len(summaryCall.summaries)
       IN /\ ~summaryCall.panic
          /\ n * summaryCall.window >= summaryCall.end - summaryCall.begin
          /\ (n - 1) * summaryCall.window < summaryCall.end - summaryCall.begin
          /\ \A i \in 1..n :
               /\ summaryCall.summaries[i].Time
                    = summaryCall.begin + (i - 1) * summaryCall.window
               /\ summaryCall.summaries[i].Duration = summaryCall.window
               /\ (\A id \in DOMAIN runs :
                      ~(Summarised(runs[id]) /\ InWindow(runs[id].started_at, i)))
                  => summaryCall.summaries[i].PackageSummary = <<>>

\* the ids of a list
Ids(list) == {list[k] : k \in DOMAIN list}

\* the run id is listed by the summary of package p in the i-th bucket
Listed(id, i, p) ==
    /\ p \in DOMAIN summaryCall.summaries[i].PackageSummary
    /\ id \in Ids(summaryCall.summaries[i].PackageSummary[p].RunIDs)
           \cup Ids(summaryCall.summaries[i].PackageSummary[p].ErrorRunIDs)

\* C18: ListRunSummariesInRange lists every finished run with tests that was
\* started in the range in the bucket floor((started_at - begin) / window),
\* under the run's package, and in no other bucket and under no other
\* package.
C18_RunInItsBucket ==
    summaryCall.window > 0 =>
       \A id \in DOMAIN runs :
          Summarised(runs[id]) =>
             /\ ~summaryCall.panic
             /\ \E i \in DOMAIN summaryCall.summaries :
                  InWindow(runs[id].started_at, i)
             /\ \A i \in DOMAIN summaryCall.summaries, p \in AllPackages :
                  Listed(id, i, p)
                  <=> (p = runs[id].package /\ InWindow(runs[id].started_at, i))

\* no id occurs twice in the list
NoRepetition(list) == \A j, k \in DOMAIN list : list[j] = list[k] => j = k

\* C19: in every bucket and for every package of the summaries, RunIDs and
\* ErrorRunIDs have no id in common and neither lists an id twice.
C19_RunIdsDisjointUnique ==
    \A i \in DOMAIN summaryCall.summaries :
       \A p \in DOMAIN summaryCall.summaries[i].PackageSummary :
          LET ps == summaryCall.summaries[i].PackageSummary[p]
          IN /\ Ids(ps.RunIDs) \cap Ids(ps.ErrorRunIDs) = {}
             /\ NoRepetition(ps.RunIDs)
             /\ NoRepetition(ps.ErrorRunIDs)

\* C20: DeleteRun, CompleteRun, FailRun, StartRun and ResetRun, called with an
\* id for which the store holds no run, return ErrNotFound, and leave every
\* stored run as it is.
C20_MissingRunIsNotFound ==
    /\ [](storeCall.missing => storeCall.err = ErrNotFound)
    /\ [][\A id \in RunIDs \ DOMAIN runs :
            (\/ PG_DeleteRun(id)
             \/ PG_CompleteRun(id)
             \/ \E msg \in ErrorMessages : PG_FailRun(id, msg)
             \/ \E runner \in SchedWorkers : PG_StartRun(id, runner)
             \/ PG_ResetRun(id))
            => runs' = runs]_vars

\* C21: no stored test references a run that the store does not hold: after
\* DeleteRun(id), GetRun(id) finds nothing and no test with run_id = id is
\* left in the table tests.
C21_DeleteRunCascades ==
    \A id \in RunIDs :
       GetRun(runs, id) = NoRun => RunTests(tests, id) = {}

\* C22: the tests attached to a claimed and finished run (the tests GetRun
\* returns with it) are exactly the tests inserted between the StartRun of the claim that
\* led to its completion and its terminal transition: none from an earlier
\* claim that was reset, none inserted after the run was finished.
C22_TestsOfLastClaim ==
    \A id \in DOMAIN runs :
       (IsStarted(runs[id]) /\ IsFinished(runs[id]))
       => {t.id : t \in RunTests(tests, id)} = written[id]

\* C23: whatever tests are submitted, and however often the same test id is
\* submitted, every test id occurs at most once among the tests GetRun returns
\* for a run (and in the whole table): an insert with an id that is already
\* stored is rejected and leaves the table as it is.
C23_TestIdStoredOnce ==
    /\ [](\A t, u \in tests : t.id = u.id => t = u)
    /\ [](\A id \in RunIDs :
            Cardinality({t.id : t \in RunTests(tests, id)})
              = Cardinality(RunTests(tests, id)))
    /\ [][\A h \in Handlers :
            (submitTest_AddTest(h)
               /\ \E t \in tests : t.id = handlers[h].test.id)
            => tests' = tests]_vars

\* submitTest is about to insert a test whose id is already stored, with
\* another result
C23_Witness ==
    \E h \in Handlers :
       /\ handlers[h].pc = "submit_add"
       /\ \E t \in tests : t.id = handlers[h].test.id /\ t # handlers[h].test

\* the request steps of the routes under /api, for credentials c
Request(c) ==
    \E h \in SchedHandlers :
       \/ \E runner \in SchedWorkers, include \in SUBSET Packages,
             exclude \in SUBSET Packages :
            ensureAuth(c, claimRun_List(h, TRUE, runner, include, exclude))
       \/ \E test \in Tests : ensureAuth(c, submitTest_GetRun(h, TRUE, test))
       \/ \E id \in RunIDs \cup {BadID} :
            ensureAuth(c, completeRun_GetRun(h, id))
       \/ \E id \in RunIDs \cup {BadID}, msg \in ErrorMessages :
            ensureAuth(c, failRun_GetRun(h, id, TRUE, msg))

\* C24: a request to a route under /api without Basic credentials, or with a
\* password other than the shared secret, is answered 401 and reaches no
\* handler: it reads and changes nothing.
C24_Unauthorized ==
    /\ [](\A c \in Credentials \ {APIKey} :
            ensureAuth_Reply(c) = StatusUnauthorized)
    /\ [][\A c \in Credentials \ {APIKey} : Request(c) => UNCHANGED vars]_vars

\* C24, amended: when an API key is configured, a request to a route of the
\* /api subrouter without Basic credentials, or with a password other than the
\* key, is answered 401 and reaches no handler: it reads and changes nothing.
C24_UnauthorizedWithKey ==
    /\ [](apiKey # ""
          => \A c \in Credentials \ {apiKey} :
               ensureAuth_Reply(c) = StatusUnauthorized)
    /\ [][apiKey # ""
          => \A c \in Credentials \ {apiKey} :
               Request(c) => UNCHANGED vars]_vars

\* an API key is configured, a run waits to be claimed and the handler is
\* free: a claim request without the key is answered 401 where one with the
\* key would start the run
C24_Witness ==
    /\ apiKey # ""
    /\ \E h \in SchedHandlers :
         /\ handlers[h].pc = "idle"
         /\ ENABLED (claimRun_List(h, TRUE, "w1", {}, {})
                       /\ handlers'[h].pc = "claim_start")
    /\ ensureAuth_Reply(NoCredentials) = StatusUnauthorized
    /\ ensureAuth_Reply("guess") = StatusUnauthorized

\* C25: a test row is created only while its run is started: a submitTest for
\* a run that is enqueued (never claimed, or reset and not claimed again)
\* inserts nothing.
C25_InsertOnlyWhileStarted ==
    [][\A t \in tests' \ tests : IsStarted(GetRun(runs, t.run_id))]_vars

\* C26: when the StartRun of claimRun does not succeed, the run is not
\* returned to the caller: the request is not answered 200 with it.
C26_FailedStartNotReturned ==
    [][\A h \in SchedHandlers :
         (claimRun_StartRun(h) /\ StartRunSelectErr(runs, handlers[h].id) # "")
         => /\ claimRun_StartReply(StartRunSelectErr(runs, handlers[h].id))
                 # StatusOK
            /\ deliveries' = deliveries]_vars

\* C27: no eligible run is claimed while an older eligible run is still
\* claimable: when claimRun starts a run for a request without package
\* lists, no pending run that is not started and whose package is configured
\* was enqueued before it.
C27_OldestClaimedFirst ==
    [][\A h \in SchedHandlers :
         claimRun_StartRun(h)
         => \A r \in Claimable({}, {}) :
              handlers[h].run.enqueued_at <= r.enqueued_at]_vars

\* C28: a submitTest for a run that the stale sweep has reset is answered 400
\* when the run is finished at the time the handler reads it, and in every
\* other case (the run is enqueued again, or started by any worker and not
\* finished) the handler goes on to AddTest, which stores a test whose id is
\* not stored yet and answers 202; the runner of the run plays no part.
C28_SubmitAfterReset ==
    /\ [](\A t \in Tests :
            LET run == GetRun(runs, t.run_id)
            IN run # NoRun
               => /\ submitTest_Reply(TRUE, run)
                       = (IF IsFinished(run) THEN StatusBadRequest ELSE NoReply)
                  /\ (\A u \in tests : u.id # t.id)
                       => submitTest_AddReply(AddTestErr(tests, t))
                            = StatusAccepted)
    /\ [][/\ \A h \in Handlers, t \in Tests :
               (/\ handlers'[h] # handlers[h]
                /\ GetRun(runs, t.run_id) # NoRun
                /\ ~IsFinished(GetRun(runs, t.run_id))
                /\ submitTest_GetRun(h, TRUE, t))
               => /\ handlers'[h].pc = "submit_add"
                  /\ handlers'[h].test = t
          /\ \A h \in Handlers :
               (/\ submitTest_AddTest(h)
                /\ \A u \in tests : u.id # handlers[h].test.id)
               => handlers[h].test \in tests']_vars

\* run 1 was reset in this tick and is enqueued again, and a handler that has
\* read it for a submitTest is about to store the test
C28_Witness ==
    /\ resetLog = LogReset
    /\ GetRun(runs, 1) # NoRun
    /\ IsEnqueued(GetRun(runs, 1))
    /\ tests = {}
    /\ \E h \in Handlers :
         /\ handlers[h].pc = "submit_add"
         /\ handlers[h].test.run_id = 1

\* run 1 was reset in this tick, claimed again by w2 and finished, and a
\* submitTest for it is answered 400
C28_WitnessFinished ==
    /\ resetLog = LogReset
    /\ GetRun(runs, 1) # NoRun
    /\ IsFinished(GetRun(runs, 1))
    /\ GetRun(runs, 1).runner = "w2"
    /\ deliveries[1] = 1
    /\ \E h \in Handlers : handlers[h].pc = "idle"
    /\ submitTest_Reply(TRUE, GetRun(runs, 1)) = StatusBadRequest

\* C29: when the reset pass gets NotFound from ResetRun for a stale run while
\* another stale run is still to visit, the error is not reported as the
\* error of the pass and the other listed runs stay to be visited.
C29_NotFoundSwallowed ==
    [][\A r \in resetSnap :
         (/\ resetStaleRuns_Visit(r)
          /\ Stale(r, now)
          /\ ResetRunErr(runs, r.id) = ErrNotFound
          /\ \E q \in resetSnap \ {r} : Stale(q, now) /\ ResetRunMatches(runs, q.id))
         => /\ resetLog' # ErrNotFound
            /\ resetSnap' = resetSnap \ {r}]_vars

\* C30: an error in the reset sub-pass leaves the schedule sub-pass of the
\* same tick as it is, the schedule sub-pass can always take its next step,
\* and whenever both sub-passes of a tick have ended, with an error logged or
\* not, the scheduler can start the next tick.
C30_SchedulerSurvivesErrors ==
    /\ []((schedPc = "idle" /\ resetPc = "idle") => ENABLED Run)
    /\ [](schedPc = "list" => ENABLED scheduleRuns_List)
    /\ [](schedPc = "loop" => ENABLED scheduleRuns_Loop(MaxSchedRuns))
    /\ [][\A r \in resetSnap :
            (/\ resetStaleRuns_Visit(r)
             /\ Stale(r, now)
             /\ ResetRunErr(runs, r.id) # "")
            => UNCHANGED <<schedPc, schedPending, schedTodo, nextID,
                           lastScheduledAt>>]_vars

\* the reset sub-pass of this tick has ended with NotFound and a package is
\* still to visit in the schedule sub-pass
C30_Witness ==
    /\ resetLog = ErrNotFound
    /\ resetPc = "idle"
    /\ schedPc = "loop"
    /\ schedTodo # {}

\* both sub-passes of a tick have ended, the reset one with NotFound
C30_WitnessNextTick ==
    /\ resetLog = ErrNotFound
    /\ resetPc = "idle"
    /\ schedPc = "idle"

\* the package summary of the run r in the i-th bucket of the last call
SummaryOf(r, i) == summaryCall.summaries[i].PackageSummary[r.package]

\* the test id is listed under the name in the passed, failed or skipped
\* tests of the package summary ps
InClass(ps, state, name, id) ==
    LET m == IF state = "passed" THEN ps.PassedTests
             ELSE IF state = "failed" THEN ps.FailedTests
             ELSE ps.SkippedTests
    IN name \in DOMAIN m /\ id \in Ids(m[name])

\* the number of places (state, name) of ps that list the test id
Places(ps, id) ==
    Cardinality({c \in {"passed", "failed", "skipped"} \X ClassNames :
                   InClass(ps, c[1], c[2], id)})

\* the run r of the last call is listed as the summaries list a run with an
\* error (only in ErrorRunIDs, none of its tests anywhere) or without one
\* (only in RunIDs)
RunListedByError(r, i) ==
    /\ r.package \in DOMAIN summaryCall.summaries[i].PackageSummary
    /\ IF r.error # ""
       THEN /\ r.id \in Ids(SummaryOf(r, i).ErrorRunIDs)
            /\ r.id \notin Ids(SummaryOf(r, i).RunIDs)
            /\ \A t \in RunTests(tests, r.id) : Places(SummaryOf(r, i), t.id) = 0
       ELSE /\ r.id \in Ids(SummaryOf(r, i).RunIDs)
            /\ r.id \notin Ids(SummaryOf(r, i).ErrorRunIDs)

C31_WitnessError ==
    /\ summaryCall.window > 0
    /\ ~summaryCall.panic
    /\ \E id \in DOMAIN runs, i \in DOMAIN summaryCall.summaries :
         /\ Summarised(runs[id])
         /\ InWindow(runs[id].started_at, i)
         /\ runs[id].error # ""
         /\ \E t \in RunTests(tests, id) : t.state = "failed"
         /\ id \in Ids(SummaryOf(runs[id], i).ErrorRunIDs)

\* C32: submitTest starts the goroutine of an alert exactly when AddTest has
\* stored the test and the state of the test is failed; the request ends in
\* the step that starts it, with 202 whenever the test was stored, and no step
\* of Fire, whatever the alerters return, changes a request or the store.
C32_AlertDetached ==
    /\ [][\A h \in SchedHandlers :
            submitTest_AddTest(h) =>
               LET test == handlers[h].test
                   err == AddTestErr(tests, test)
               IN /\ alerts'.queue \ alerts.queue
                       = (IF err = "" /\ test.state = "failed"
                          THEN {test.id} ELSE {})
                  /\ submitTest_AddReply(err)
                       = (IF err = "" THEN StatusAccepted
                          ELSE StatusInternalServerError)
                  /\ handlers'[h] = Idle]_vars
    /\ [][(alerts'.queue \ alerts.queue # {})
            => \E h \in SchedHandlers :
                  /\ handlers[h].pc = "submit_add"
                  /\ handlers[h].test.state = "failed"
                  /\ handlers[h].test \in tests' \ tests]_vars
    /\ [][(alerts'.firing # alerts.firing \/ alerts'.todo # alerts.todo)
            => UNCHANGED <<handlers, tests, runs>>]_vars

\* the request that stored the failed test t1 is over, no request is in
\* flight, and the Fire of its alert is running: one alerter has returned an
\* error and the other has not returned yet
C32_Witness ==
    /\ \A h \in Handlers : handlers[h] = Idle
    /\ alerts.firing = "t1"
    /\ alerts.err # ""
    /\ alerts.todo # {}
    /\ \E t \in tests : t.id = "t1" /\ t.state = "failed"

\* C33: while Fire runs, every registered alerter has returned or is still to
\* return, also after an alerter has failed; Fire returns only when all of
\* them have returned, and it returns an error exactly when at least one of
\* them failed: the error of the first that failed, wrapped.
C33_FireJoinsAll ==
    /\ [](alerts.firing # ""
            => /\ alerts.todo \cup alerts.called = alerts.alerters
               /\ alerts.todo \cap alerts.called = {})
    /\ [][Fire_Wait =>
            /\ alerts.called = alerts.alerters
            /\ alerts'.returned # <<>> <=> Len(alerts.failed) > 0
            /\ Len(alerts.failed) > 0
                 => alerts'.returned = Wrapped(alerts.failed[1])]_vars

\* Fire runs with both alerters registered; the first to return failed, the
\* other has returned as well, without error, and Fire is about to return
C33_Witness ==
    /\ alerts.firing # ""
    /\ alerts.alerters = Alerters
    /\ alerts.todo = {}
    /\ alerts.called = Alerters
    /\ Len(alerts.failed) = 1
    /\ alerts.err = alerts.failed[1]

\* both alerters have failed
C33_WitnessBothFail ==
    /\ alerts.firing # ""
    /\ alerts.todo = {}
    /\ Len(alerts.failed) = 2
    /\ alerts.err = alerts.failed[1]

\* C34: once a run that was claimed is finished, its finished_at and its
\* error never change again.
C34_TerminalStateStable ==
    [][\A id \in DOMAIN runs :
         (IsStarted(runs[id]) /\ IsFinished(runs[id]))
         => /\ id \in DOMAIN runs'
            /\ runs'[id].finished_at = runs[id].finished_at
            /\ runs'[id].error = runs[id].error]_vars

\* C35: after the scheduler has reset a started run and a worker has claimed
\* it again, only the worker recorded as owner moves it to its terminal
\* state: when the CompleteRun or FailRun of a request finishes the run, the
\* runner of the run is the worker that sent the request.
C35_OnlyOwnerFinishes ==
    [][\A h \in Handlers :
         ((completeRun_CompleteRun(h) \/ failRun_FailRun(h))
            /\ resetLog = LogReset
            /\ IsStarted(GetRun(runs, handlers[h].id))
            /\ ~IsFinished(GetRun(runs, handlers[h].id))
            /\ IsFinished(GetRun(runs', handlers[h].id)))
         => GetRun(runs, handlers[h].id).runner = WorkerOf[h]]_vars

\* C36: after a call of ListRunSummariesInRange with window > 0, every row
\* the query selects has a bucket index that is at least 0 and below the
\* number of buckets, and the call has not failed on an index out of range.
C36_BucketIndexInRange ==
    summaryCall.window > 0 =>
       /\ ~summaryCall.panic
       /\ \A row \in SummaryRows(runs, tests, summaryCall.begin,
                                 summaryCall.end) :
            LET i == BucketIndex(row.run.started_at, summaryCall.begin,
                                 summaryCall.window)
            IN /\ 0 <= i
               /\ i < Buckets(summaryCall.begin, summaryCall.end,
                              summaryCall.window)

\* the run was started in the range of the last call and is finished
FinishedInRange(r) ==
    /\ IsStarted(r)
    /\ IsFinished(r)
    /\ r.started_at >= summaryCall.begin
    /\ r.started_at <= summaryCall.end

\* C37: in the result of a call of ListRunSummariesInRange, every finished
\* run started in the range, with tests or without, is listed in exactly one
\* bucket, under its package: in RunIDs when it has no error and in
\* ErrorRunIDs when it has one.
C37_EveryFinishedRunListed ==
    (summaryCall.window > 0 /\ ~summaryCall.panic) =>
       \A id \in DOMAIN runs :
          FinishedInRange(runs[id]) =>
             \E i \in DOMAIN summaryCall.summaries :
                /\ Listed(id, i, runs[id].package)
                /\ \A j \in DOMAIN summaryCall.summaries \ {i} :
                     ~Listed(id, j, runs[id].package)
                /\ LET ps == summaryCall.summaries[i]
                               .PackageSummary[runs[id].package]
                   IN IF runs[id].error = ""
                      THEN id \in Ids(ps.RunIDs) /\ id \notin Ids(ps.ErrorRunIDs)
                      ELSE id \in Ids(ps.ErrorRunIDs) /\ id \notin Ids(ps.RunIDs)

\* C38: lastScheduledAt of a package is advanced only by a step in which
\* EnqueueRun has stored a new run of that package.
C38_LastScheduledOnlyOnSuccess ==
    [][\A p \in AllPackages :
         lastScheduledAt'[p] # lastScheduledAt[p]
         => \E id \in DOMAIN runs' \ DOMAIN runs : runs'[id].package = p]_vars

\* the run id is started since the instant s and not finished
Held(id, s) ==
    /\ id \in DOMAIN runs
    /\ runs[id].started_at = s
    /\ ~IsFinished(runs[id])

\* the instants of a StartRun after which the clock of the model can still
\* pass the run timeout
Resettable == 1..(MaxTime - RunTimeout - 1)

\* C39: under fair scheduler ticks a run that was started at an instant s does
\* not stay started since s forever: it is finished or the stale sweep resets
\* it, whatever its worker does.
C39_NoRunHeldForever ==
    \A id \in RunIDs : \A s \in Resettable :
       Held(id, s) ~> ~Held(id, s)

\* run 1 is started since the first instant, the clock has reached its end,
\* and no request is in flight
C39_Witness ==
    /\ Held(1, 1)
    /\ now = MaxTime
    /\ \A h \in Handlers : handlers[h] = Idle


\* ---------------------------------------------------------------- C40
\* the runs stored for the package
RunsOf(pkg) == {id \in DOMAIN runs : runs[id].package = pkg}

\* the package is configured, has no pending run, and its run delay has
\* elapsed since it was last scheduled (or it was never scheduled)
DueNow(pkg) ==
    /\ pkg \in packages
    /\ Due(pkg, {r.package : r \in ListPendingRuns(runs)}, lastScheduledAt, now)

\* C40: under fair scheduler ticks every configured package keeps being
\* scheduled: whenever a package has no pending run and its run delay has
\* elapsed, a new run for it is eventually enqueued, wherever the shuffle
\* puts the package (the store of the model takes MaxSchedRuns runs).
C40_DuePackageScheduled ==
    \A pkg \in AllPackages : \A n \in 0..MaxSchedRuns :
       (DueNow(pkg) /\ Cardinality(RunsOf(pkg)) = n /\ nextID < MaxSchedRuns)
          ~> (Cardinality(RunsOf(pkg)) > n \/ nextID >= MaxSchedRuns)

\* the second of two configured packages was due after its first run had
\* finished, and a second run was enqueued for it
C40_Witness ==
    /\ packages = AllPackages
    /\ RunsOf("p2") = {1, 2}
    /\ IsFinished(runs[1])
    /\ ~IsFinished(runs[2])
    /\ lastScheduledAt["p2"] = runs[2].enqueued_at
====
